---- MODULE Spec2Model ----
(***************************************************************************)
(* The selection-state engine of useArtworkSelection.ts: the reducer's     *)
(* state (base mode + four override sets + identity caches), its eight     *)
(* actions, and the query functions built on it.                           *)
(*                                                                         *)
(* A JavaScript Set is modelled as the duplicate-free sequence of its      *)
(* elements in insertion order (which is what Array.from and forEach       *)
(* observe); a JavaScript Map is modelled as a function whose DOMAIN is    *)
(* the set of keys present.                                                *)
(***************************************************************************)
EXTENDS Integers, Sequences, FiniteSets, TLC

\* ---------------------------------------------------------------- bounds
\* Largest total the record source ever reports (size of the collection).
MaxTotal == 3
\* Rows per page handed to the hook (UseArtworkSelectionConfig.rowsPerPage).
rowsPerPage == 2

\* ------------------------------------------------------------ JS helpers
Min(a, b) == IF a < b THEN a ELSE b
Max(a, b) == IF a > b THEN a ELSE b

Range(s) == {s[i] : i \in 1..Len(s)}

\* Set.prototype.has / add / delete on an insertion-ordered set.
SetHas(s, x) == \E i \in 1..Len(s) : s[i] = x
SetAdd(s, x) == IF SetHas(s, x) THEN s ELSE Append(s, x)
SetDelete(s, x) == SelectSeq(s, LAMBDA e : e # x)

\* Map.prototype.has / set; `new Map()`.
EmptyMap == [k \in {} |-> 0]
MapHas(m, k) == k \in DOMAIN m
MapSet(m, k, v) == [x \in (DOMAIN m) \cup {k} |-> IF x = k THEN v ELSE m[x]]

\* ------------------------------------------------------- the collection
\* transformArtwork: the record's id is the decimal string of the server's
\* numeric id.  The record at absolute index i carries server id i + 1.
IdAt(i) == ToString(i + 1)

\* The (id, absoluteIndex) pair of the record at absolute index i.
RowAt(i) == [id |-> IdAt(i), absoluteIndex |-> i]

\* pageData.map((row, localIndex) => ({id, absoluteIndex: currentPage *
\* rowsPerPage + localIndex})) for the page `currentPage` of a collection of
\* `total` records.
PageRows(currentPage, total) ==
  LET first == currentPage * rowsPerPage
      n == Max(0, Min(rowsPerPage, total - first))
  IN  [localIndex \in 1..n |-> RowAt(first + localIndex - 1)]

\* ------------------------------------------------------------ the state
createFreshOverrides ==
  [includedIds |-> <<>>, excludedIds |-> <<>>,
   includedIndices |-> <<>>, excludedIndices |-> <<>>]

createInitialState(totalRecords) ==
  [mode |-> "NONE",
   rangeCount |-> 0,
   totalRecords |-> totalRecords,
   overrides |-> createFreshOverrides,
   indexToIdCache |-> EmptyMap,
   idToIndexCache |-> EmptyMap]

\* --------------------------------------------------------------- queries
\* Mutant: the range test is off by one (<= instead of <).
wouldBaseModeSelectOffByOne(s, absoluteIndex) ==
  CASE s.mode = "ALL" -> TRUE
    [] s.mode = "RANGE" -> absoluteIndex <= s.rangeCount
    [] OTHER -> FALSE

wouldBaseModeSelect(s, absoluteIndex) ==
  CASE s.mode = "ALL" -> TRUE
    [] s.mode = "RANGE" -> absoluteIndex < s.rangeCount
    [] OTHER -> FALSE

\* Mutant: the index-keyed overrides are consulted before the id-keyed ones.
checkIsRowSelectedIndexFirst(s, id, absoluteIndex) ==
  IF SetHas(s.overrides.excludedIndices, absoluteIndex) THEN FALSE
  ELSE IF SetHas(s.overrides.includedIndices, absoluteIndex) THEN TRUE
  ELSE IF SetHas(s.overrides.excludedIds, id) THEN FALSE
  ELSE IF SetHas(s.overrides.includedIds, id) THEN TRUE
  ELSE CASE s.mode = "ALL" -> TRUE
         [] s.mode = "RANGE" -> absoluteIndex < s.rangeCount
         [] OTHER -> FALSE

checkIsRowSelected(s, id, absoluteIndex) ==
  IF SetHas(s.overrides.excludedIds, id) THEN FALSE
  ELSE IF SetHas(s.overrides.includedIds, id) THEN TRUE
  ELSE IF SetHas(s.overrides.excludedIndices, absoluteIndex) THEN FALSE
  ELSE IF SetHas(s.overrides.includedIndices, absoluteIndex) THEN TRUE
  ELSE CASE s.mode = "NONE" -> FALSE
         [] s.mode = "ALL" -> TRUE
         [] s.mode = "RANGE" -> absoluteIndex < s.rangeCount
         [] s.mode = "EXPLICIT" -> FALSE
         [] OTHER -> FALSE

calculateSelectedCount(s) ==
  LET ov == s.overrides
      baseCount ==
        CASE s.mode = "NONE" -> 0
          [] s.mode = "ALL" -> s.totalRecords
          [] s.mode = "RANGE" -> Min(s.rangeCount, s.totalRecords)
          [] s.mode = "EXPLICIT" -> 0
          [] OTHER -> 0
      known(ids) == {id \in Range(ids) : MapHas(s.idToIndexCache, id)}
      unknown(ids) == {id \in Range(ids) : ~MapHas(s.idToIndexCache, id)}
      includedIndices ==
        Range(ov.includedIndices)
          \cup {s.idToIndexCache[id] : id \in known(ov.includedIds)}
      unknownIdCount == Cardinality(unknown(ov.includedIds))
      excludedIndices ==
        Range(ov.excludedIndices)
          \cup {s.idToIndexCache[id] : id \in known(ov.excludedIds)}
      unknownExcludedCount == Cardinality(unknown(ov.excludedIds))
      additionalInclusions ==
        Cardinality({i \in Range(ov.includedIndices) :
                       ~wouldBaseModeSelect(s, i)})
        + Cardinality({id \in known(ov.includedIds) :
                       ~wouldBaseModeSelect(s, s.idToIndexCache[id])})
        + Cardinality(unknown(ov.includedIds))
  IN  IF s.mode = "EXPLICIT" \/ s.mode = "NONE"
      THEN Cardinality(includedIndices) + unknownIdCount
      ELSE Max(0, baseCount - Cardinality(excludedIndices)
                    - unknownExcludedCount + additionalInclusions)

\* --------------------------------------------------------------- reducer
\* Mutant: selecting a row adds the included overrides without first
\* deleting the row's excluded overrides.
reduceToggleRowKeepsExcluded(s, payload) ==
  LET id == payload.id
      absoluteIndex == payload.absoluteIndex
      isCurrentlySelected == checkIsRowSelected(s, id, absoluteIndex)
      ov == s.overrides
      newOverrides ==
        IF isCurrentlySelected
        THEN LET incIds == SetDelete(ov.includedIds, id)
                 incIdx == SetDelete(ov.includedIndices, absoluteIndex)
             IN  IF wouldBaseModeSelect(s, absoluteIndex)
                 THEN [includedIds |-> incIds,
                       includedIndices |-> incIdx,
                       excludedIds |-> SetAdd(ov.excludedIds, id),
                       excludedIndices |->
                         SetAdd(ov.excludedIndices, absoluteIndex)]
                 ELSE [includedIds |-> incIds,
                       includedIndices |-> incIdx,
                       excludedIds |-> ov.excludedIds,
                       excludedIndices |-> ov.excludedIndices]
        ELSE IF ~wouldBaseModeSelect(s, absoluteIndex)
             THEN [includedIds |-> SetAdd(ov.includedIds, id),
                   includedIndices |->
                     SetAdd(ov.includedIndices, absoluteIndex),
                   excludedIds |-> ov.excludedIds,
                   excludedIndices |-> ov.excludedIndices]
             ELSE [includedIds |-> ov.includedIds,
                   includedIndices |-> ov.includedIndices,
                   excludedIds |-> SetDelete(ov.excludedIds, id),
                   excludedIndices |->
                     SetDelete(ov.excludedIndices, absoluteIndex)]
      newMode == IF s.mode = "NONE" /\ ~isCurrentlySelected
                 THEN "EXPLICIT" ELSE s.mode
  IN  [s EXCEPT !.mode = newMode,
                !.overrides = newOverrides,
                !.indexToIdCache = MapSet(@, absoluteIndex, id),
                !.idToIndexCache = MapSet(@, id, absoluteIndex)]

\* Mutant: selecting a row drops every excluded override, not only the
\* row's own.
reduceToggleRowClearsExclusions(s, payload) ==
  LET id == payload.id
      absoluteIndex == payload.absoluteIndex
      isCurrentlySelected == checkIsRowSelected(s, id, absoluteIndex)
      base == wouldBaseModeSelect(s, absoluteIndex)
      ov == s.overrides
      newOverrides ==
        IF isCurrentlySelected
        THEN [includedIds |-> SetDelete(ov.includedIds, id),
              includedIndices |-> SetDelete(ov.includedIndices, absoluteIndex),
              excludedIds |->
                IF base THEN SetAdd(ov.excludedIds, id) ELSE ov.excludedIds,
              excludedIndices |->
                IF base THEN SetAdd(ov.excludedIndices, absoluteIndex)
                ELSE ov.excludedIndices]
        ELSE [includedIds |->
                IF base THEN ov.includedIds ELSE SetAdd(ov.includedIds, id),
              includedIndices |->
                IF base THEN ov.includedIndices
                ELSE SetAdd(ov.includedIndices, absoluteIndex),
              excludedIds |-> <<>>,
              excludedIndices |-> <<>>]
      newMode == IF s.mode = "NONE" /\ ~isCurrentlySelected
                 THEN "EXPLICIT" ELSE s.mode
  IN  [s EXCEPT !.mode = newMode,
                !.overrides = newOverrides,
                !.indexToIdCache = MapSet(@, absoluteIndex, id),
                !.idToIndexCache = MapSet(@, id, absoluteIndex)]

\* Mutant: a toggle from NONE adds the included overrides and stays in NONE.
reduceToggleRowStaysNone(s, payload) ==
  LET id == payload.id
      absoluteIndex == payload.absoluteIndex
      isCurrentlySelected == checkIsRowSelected(s, id, absoluteIndex)
      base == wouldBaseModeSelect(s, absoluteIndex)
      ov == s.overrides
      newOverrides ==
        IF isCurrentlySelected
        THEN [includedIds |-> SetDelete(ov.includedIds, id),
              includedIndices |-> SetDelete(ov.includedIndices, absoluteIndex),
              excludedIds |->
                IF base THEN SetAdd(ov.excludedIds, id) ELSE ov.excludedIds,
              excludedIndices |->
                IF base THEN SetAdd(ov.excludedIndices, absoluteIndex)
                ELSE ov.excludedIndices]
        ELSE [includedIds |->
                IF base THEN ov.includedIds ELSE SetAdd(ov.includedIds, id),
              includedIndices |->
                IF base THEN ov.includedIndices
                ELSE SetAdd(ov.includedIndices, absoluteIndex),
              excludedIds |-> SetDelete(ov.excludedIds, id),
              excludedIndices |-> SetDelete(ov.excludedIndices, absoluteIndex)]
  IN  [s EXCEPT !.overrides = newOverrides,
                !.indexToIdCache = MapSet(@, absoluteIndex, id),
                !.idToIndexCache = MapSet(@, id, absoluteIndex)]

\* case 'TOGGLE_ROW'
reduceToggleRow(s, payload) ==
  LET id == payload.id
      absoluteIndex == payload.absoluteIndex
      isCurrentlySelected == checkIsRowSelected(s, id, absoluteIndex)
      ov == s.overrides
      newOverrides ==
        IF isCurrentlySelected
        THEN LET incIds == SetDelete(ov.includedIds, id)
                 incIdx == SetDelete(ov.includedIndices, absoluteIndex)
             IN  IF wouldBaseModeSelect(s, absoluteIndex)
                 THEN [includedIds |-> incIds,
                       includedIndices |-> incIdx,
                       excludedIds |-> SetAdd(ov.excludedIds, id),
                       excludedIndices |->
                         SetAdd(ov.excludedIndices, absoluteIndex)]
                 ELSE [includedIds |-> incIds,
                       includedIndices |-> incIdx,
                       excludedIds |-> ov.excludedIds,
                       excludedIndices |-> ov.excludedIndices]
        ELSE LET excIds == SetDelete(ov.excludedIds, id)
                 excIdx == SetDelete(ov.excludedIndices, absoluteIndex)
             IN  IF ~wouldBaseModeSelect(s, absoluteIndex)
                 THEN [includedIds |-> SetAdd(ov.includedIds, id),
                       includedIndices |->
                         SetAdd(ov.includedIndices, absoluteIndex),
                       excludedIds |-> excIds,
                       excludedIndices |-> excIdx]
                 ELSE [includedIds |-> ov.includedIds,
                       includedIndices |-> ov.includedIndices,
                       excludedIds |-> excIds,
                       excludedIndices |-> excIdx]
      newMode == IF s.mode = "NONE" /\ ~isCurrentlySelected
                 THEN "EXPLICIT" ELSE s.mode
  IN  [s EXCEPT !.mode = newMode,
                !.overrides = newOverrides,
                !.indexToIdCache = MapSet(@, absoluteIndex, id),
                !.idToIndexCache = MapSet(@, id, absoluteIndex)]

\* The accumulators of a page action before its rows.forEach: clones of the
\* overrides and of the two caches of the state it was dispatched on.
cloneAccumulators(s) ==
  [overrides |-> s.overrides,
   indexToIdCache |-> s.indexToIdCache,
   idToIndexCache |-> s.idToIndexCache]

\* Mutant: selecting a page adds the missing inclusions but leaves the rows'
\* excluded overrides in place.
selectAllPageRowKeepsExcluded(s, acc, row) ==
  LET ov == acc.overrides
  IN  [overrides |->
         IF ~wouldBaseModeSelect(s, row.absoluteIndex)
         THEN [ov EXCEPT !.includedIds = SetAdd(@, row.id),
                         !.includedIndices = SetAdd(@, row.absoluteIndex)]
         ELSE ov,
       indexToIdCache |-> MapSet(acc.indexToIdCache, row.absoluteIndex, row.id),
       idToIndexCache |-> MapSet(acc.idToIndexCache, row.id, row.absoluteIndex)]

\* The forEach callback of SELECT_ALL_PAGE, for one row.
selectAllPageRow(s, acc, row) ==
  LET ov == acc.overrides
      excIds == SetDelete(ov.excludedIds, row.id)
      excIdx == SetDelete(ov.excludedIndices, row.absoluteIndex)
  IN  [overrides |->
         IF ~wouldBaseModeSelect(s, row.absoluteIndex)
         THEN [includedIds |-> SetAdd(ov.includedIds, row.id),
               includedIndices |->
                 SetAdd(ov.includedIndices, row.absoluteIndex),
               excludedIds |-> excIds,
               excludedIndices |-> excIdx]
         ELSE [includedIds |-> ov.includedIds,
               includedIndices |-> ov.includedIndices,
               excludedIds |-> excIds,
               excludedIndices |-> excIdx],
       indexToIdCache |-> MapSet(acc.indexToIdCache, row.absoluteIndex, row.id),
       idToIndexCache |-> MapSet(acc.idToIndexCache, row.id, row.absoluteIndex)]

\* rows.forEach(...) of SELECT_ALL_PAGE: the accumulators after rows 1..n.
RECURSIVE selectAllPageRows(_, _, _)
selectAllPageRows(s, rows, n) ==
  IF n = 0 THEN cloneAccumulators(s)
  ELSE selectAllPageRow(s, selectAllPageRows(s, rows, n - 1), rows[n])

\* case 'SELECT_ALL_PAGE'
reduceSelectAllPage(s, payload) ==
  LET acc == selectAllPageRows(s, payload.rows, Len(payload.rows))
      newMode == IF s.mode = "NONE" THEN "EXPLICIT" ELSE s.mode
  IN  [s EXCEPT !.mode = newMode,
                !.overrides = acc.overrides,
                !.indexToIdCache = acc.indexToIdCache,
                !.idToIndexCache = acc.idToIndexCache]

\* Mutant: deselecting a page records the exclusions by id only.
deselectAllPageRowIdOnly(s, acc, row) ==
  LET ov == acc.overrides
      base == wouldBaseModeSelect(s, row.absoluteIndex)
  IN  [overrides |->
         [includedIds |-> SetDelete(ov.includedIds, row.id),
          includedIndices |-> SetDelete(ov.includedIndices, row.absoluteIndex),
          excludedIds |->
            IF base THEN SetAdd(ov.excludedIds, row.id) ELSE ov.excludedIds,
          excludedIndices |-> ov.excludedIndices],
       indexToIdCache |-> MapSet(acc.indexToIdCache, row.absoluteIndex, row.id),
       idToIndexCache |-> MapSet(acc.idToIndexCache, row.id, row.absoluteIndex)]

\* The forEach callback of DESELECT_ALL_PAGE, for one row.
deselectAllPageRow(s, acc, row) ==
  LET ov == acc.overrides
      incIds == SetDelete(ov.includedIds, row.id)
      incIdx == SetDelete(ov.includedIndices, row.absoluteIndex)
  IN  [overrides |->
         IF wouldBaseModeSelect(s, row.absoluteIndex)
         THEN [includedIds |-> incIds,
               includedIndices |-> incIdx,
               excludedIds |-> SetAdd(ov.excludedIds, row.id),
               excludedIndices |->
                 SetAdd(ov.excludedIndices, row.absoluteIndex)]
         ELSE [includedIds |-> incIds,
               includedIndices |-> incIdx,
               excludedIds |-> ov.excludedIds,
               excludedIndices |-> ov.excludedIndices],
       indexToIdCache |-> MapSet(acc.indexToIdCache, row.absoluteIndex, row.id),
       idToIndexCache |-> MapSet(acc.idToIndexCache, row.id, row.absoluteIndex)]

\* rows.forEach(...) of DESELECT_ALL_PAGE: the accumulators after rows 1..n.
RECURSIVE deselectAllPageRows(_, _, _)
deselectAllPageRows(s, rows, n) ==
  IF n = 0 THEN cloneAccumulators(s)
  ELSE deselectAllPageRow(s, deselectAllPageRows(s, rows, n - 1), rows[n])

\* case 'DESELECT_ALL_PAGE'
reduceDeselectAllPage(s, payload) ==
  LET acc == deselectAllPageRows(s, payload.rows, Len(payload.rows))
  IN  [s EXCEPT !.overrides = acc.overrides,
                !.indexToIdCache = acc.indexToIdCache,
                !.idToIndexCache = acc.idToIndexCache]

\* Mutant: the bulk selection keeps the manual overrides it should discard.
reduceBulkSelectKeepsOverrides(s, payload) ==
  LET clampedCount == Min(Max(0, payload.count), s.totalRecords)
  IN  IF clampedCount = 0
      THEN [s EXCEPT !.mode = "NONE", !.rangeCount = 0]
      ELSE [s EXCEPT !.mode = "RANGE", !.rangeCount = clampedCount]

\* case 'BULK_SELECT'
reduceBulkSelect(s, payload) ==
  LET clampedCount == Min(Max(0, payload.count), s.totalRecords)
  IN  IF clampedCount = 0
      THEN [s EXCEPT !.mode = "NONE",
                     !.rangeCount = 0,
                     !.overrides = createFreshOverrides]
      ELSE [s EXCEPT !.mode = "RANGE",
                     !.rangeCount = clampedCount,
                     !.overrides = createFreshOverrides]

\* Mutant: select-all keeps the manual overrides it should discard.
reduceSelectAllKeepsOverrides(s) ==
  [s EXCEPT !.mode = "ALL", !.rangeCount = s.totalRecords]

\* case 'SELECT_ALL'
reduceSelectAll(s) ==
  [s EXCEPT !.mode = "ALL",
            !.rangeCount = s.totalRecords,
            !.overrides = createFreshOverrides]

\* Mutant: clearing starts over from a fresh state, dropping the caches.
reduceClearSelectionDropsCaches(s) == createInitialState(s.totalRecords)

\* case 'CLEAR_SELECTION'
reduceClearSelection(s) ==
  [s EXCEPT !.mode = "NONE",
            !.rangeCount = 0,
            !.overrides = createFreshOverrides]

\* Mutant: a total that empties the range also drops the mode to NONE.
reduceUpdateTotalRecordsDropsMode(s, payload) ==
  LET newRangeCount == IF s.mode = "RANGE"
                       THEN Min(s.rangeCount, payload.total)
                       ELSE s.rangeCount
  IN  [s EXCEPT !.totalRecords = payload.total,
                !.rangeCount = newRangeCount,
                !.mode = IF s.mode = "RANGE" /\ newRangeCount = 0
                         THEN "NONE" ELSE s.mode]

\* Mutant: a new total keeps the range parameter as it is.
reduceUpdateTotalRecordsNoClamp(s, payload) ==
  [s EXCEPT !.totalRecords = payload.total]

\* Mutant: a new total empties the identity caches.
reduceUpdateTotalRecordsDropsCaches(s, payload) ==
  LET newRangeCount == IF s.mode = "RANGE"
                       THEN Min(s.rangeCount, payload.total)
                       ELSE s.rangeCount
  IN  [s EXCEPT !.totalRecords = payload.total,
                !.rangeCount = newRangeCount,
                !.indexToIdCache = EmptyMap,
                !.idToIndexCache = EmptyMap]

\* case 'UPDATE_TOTAL_RECORDS'
reduceUpdateTotalRecords(s, payload) ==
  LET newRangeCount == IF s.mode = "RANGE"
                       THEN Min(s.rangeCount, payload.total)
                       ELSE s.rangeCount
  IN  [s EXCEPT !.totalRecords = payload.total,
                !.rangeCount = newRangeCount]

\* Mutant: syncing a page to "selected" leaves the rows' excluded overrides
\* in place.
syncPageRowKeepsExcluded(selected, s, acc, row) ==
  LET ov == acc.overrides
      id == row.id
      absoluteIndex == row.absoluteIndex
      base == wouldBaseModeSelect(s, absoluteIndex)
      newOverrides ==
        IF selected
        THEN [includedIds |->
                IF base THEN ov.includedIds ELSE SetAdd(ov.includedIds, id),
              includedIndices |->
                IF base THEN ov.includedIndices
                ELSE SetAdd(ov.includedIndices, absoluteIndex),
              excludedIds |-> ov.excludedIds,
              excludedIndices |-> ov.excludedIndices]
        ELSE [includedIds |-> SetDelete(ov.includedIds, id),
              includedIndices |-> SetDelete(ov.includedIndices, absoluteIndex),
              excludedIds |->
                IF base THEN SetAdd(ov.excludedIds, id) ELSE ov.excludedIds,
              excludedIndices |->
                IF base THEN SetAdd(ov.excludedIndices, absoluteIndex)
                ELSE ov.excludedIndices]
  IN  [overrides |-> newOverrides,
       indexToIdCache |-> MapSet(acc.indexToIdCache, absoluteIndex, id),
       idToIndexCache |-> MapSet(acc.idToIndexCache, id, absoluteIndex)]

\* The forEach callback of SYNC_PAGE_SELECTION, for one row.
syncPageRow(selected, s, acc, row) ==
  LET ov == acc.overrides
      id == row.id
      absoluteIndex == row.absoluteIndex
      newOverrides ==
        IF selected
        THEN LET excIds == SetDelete(ov.excludedIds, id)
                 excIdx == SetDelete(ov.excludedIndices, absoluteIndex)
             IN  IF ~wouldBaseModeSelect(s, absoluteIndex)
                 THEN [includedIds |-> SetAdd(ov.includedIds, id),
                       includedIndices |->
                         SetAdd(ov.includedIndices, absoluteIndex),
                       excludedIds |-> excIds,
                       excludedIndices |-> excIdx]
                 ELSE [includedIds |-> ov.includedIds,
                       includedIndices |-> ov.includedIndices,
                       excludedIds |-> excIds,
                       excludedIndices |-> excIdx]
        ELSE LET incIds == SetDelete(ov.includedIds, id)
                 incIdx == SetDelete(ov.includedIndices, absoluteIndex)
             IN  IF wouldBaseModeSelect(s, absoluteIndex)
                 THEN [includedIds |-> incIds,
                       includedIndices |-> incIdx,
                       excludedIds |-> SetAdd(ov.excludedIds, id),
                       excludedIndices |->
                         SetAdd(ov.excludedIndices, absoluteIndex)]
                 ELSE [includedIds |-> incIds,
                       includedIndices |-> incIdx,
                       excludedIds |-> ov.excludedIds,
                       excludedIndices |-> ov.excludedIndices]
  IN  [overrides |-> newOverrides,
       indexToIdCache |-> MapSet(acc.indexToIdCache, absoluteIndex, id),
       idToIndexCache |-> MapSet(acc.idToIndexCache, id, absoluteIndex)]

\* rows.forEach(...) of SYNC_PAGE_SELECTION: the accumulators after rows 1..n.
RECURSIVE syncPageRows(_, _, _, _)
syncPageRows(selected, s, rows, n) ==
  IF n = 0 THEN cloneAccumulators(s)
  ELSE syncPageRow(selected, s, syncPageRows(selected, s, rows, n - 1), rows[n])

\* case 'SYNC_PAGE_SELECTION'
reduceSyncPageSelection(s, payload) ==
  LET acc == syncPageRows(payload.selected, s, payload.rows, Len(payload.rows))
      newMode == IF s.mode = "NONE" /\ payload.selected
                 THEN "EXPLICIT" ELSE s.mode
  IN  [s EXCEPT !.mode = newMode,
                !.overrides = acc.overrides,
                !.indexToIdCache = acc.indexToIdCache,
                !.idToIndexCache = acc.idToIndexCache]

selectionReducer(s, action) ==
  CASE action.type = "TOGGLE_ROW" -> reduceToggleRow(s, action.payload)
    [] action.type = "SELECT_ALL_PAGE" -> reduceSelectAllPage(s, action.payload)
    [] action.type = "DESELECT_ALL_PAGE" ->
         reduceDeselectAllPage(s, action.payload)
    [] action.type = "BULK_SELECT" -> reduceBulkSelect(s, action.payload)
    [] action.type = "SELECT_ALL" -> reduceSelectAll(s)
    [] action.type = "CLEAR_SELECTION" -> reduceClearSelection(s)
    [] action.type = "UPDATE_TOTAL_RECORDS" ->
         reduceUpdateTotalRecords(s, action.payload)
    [] action.type = "SYNC_PAGE_SELECTION" ->
         reduceSyncPageSelection(s, action.payload)
    [] OTHER -> s

\* ------------------------------------------------------------ descriptor
\* Mutant: the excluded overrides are emitted even when they are empty.
getSelectionDescriptorEmitsEmpty(s) ==
  LET ov == s.overrides
      base == [mode |-> s.mode]
  IN  CASE s.mode = "RANGE" ->
             base @@ ("rangeCount" :> s.rangeCount)
                  @@ ("excludedIds" :> ov.excludedIds)
                  @@ ("excludedIndices" :> ov.excludedIndices)
        [] s.mode = "ALL" -> base @@ ("excludedIds" :> ov.excludedIds)
        [] s.mode = "EXPLICIT" -> base @@ ("includedIds" :> ov.includedIds)
        [] OTHER -> base

\* getSelectionDescriptor: an object whose optional fields are present only
\* when the code assigns them; Array.from(set) lists the set in insertion
\* order.
getSelectionDescriptor(s) ==
  LET ov == s.overrides
      base == [mode |-> s.mode]
      opt(cond, field, value) == IF cond THEN field :> value ELSE EmptyMap
  IN  CASE s.mode = "RANGE" ->
             base @@ ("rangeCount" :> s.rangeCount)
                  @@ opt(Len(ov.excludedIds) > 0, "excludedIds", ov.excludedIds)
                  @@ opt(Len(ov.excludedIndices) > 0,
                         "excludedIndices", ov.excludedIndices)
        [] s.mode = "ALL" ->
             base @@ opt(Len(ov.excludedIds) > 0, "excludedIds", ov.excludedIds)
        [] s.mode = "EXPLICIT" ->
             base @@ ("includedIds" :> ov.includedIds)
        [] OTHER -> base

\* ------------------------------------------------------ page-level hooks
\* The rows the record source holds for page `page` (0-based) of a collection
\* of `total` records; of an Artwork only the id is modelled.
PageData(page, total) ==
  LET first == page * rowsPerPage
      n == Max(0, Min(rowsPerPage, total - first))
  IN  [localIndex \in 1..n |-> [id |-> IdAt(first + localIndex - 1)]]

\* pageData.map((row, localIndex) => ({id: row.id, absoluteIndex:
\* currentPage * rowsPerPage + localIndex}))
rowsWithIndices(pageData, currentPage) ==
  [i \in 1..Len(pageData) |->
     [id |-> pageData[i].id,
      absoluteIndex |-> currentPage * rowsPerPage + (i - 1)]]

\* onSelectAllCurrentPage: the action it dispatches.
onSelectAllCurrentPage(s, pageData, currentPage) ==
  LET rows == rowsWithIndices(pageData, currentPage)
      allSelected ==
        \A i \in 1..Len(rows) :
          checkIsRowSelected(s, rows[i].id, rows[i].absoluteIndex)
  IN  IF allSelected
      THEN [type |-> "DESELECT_ALL_PAGE", payload |-> [rows |-> rows]]
      ELSE [type |-> "SELECT_ALL_PAGE", payload |-> [rows |-> rows]]

\* Mutant: an empty page counts as fully selected.
isCurrentPageFullySelectedVacuous(s, pageData, currentPage) ==
  \A i \in 1..Len(pageData) :
    checkIsRowSelected(s, pageData[i].id, currentPage * rowsPerPage + (i - 1))

isCurrentPageFullySelected(s, pageData, currentPage) ==
  IF Len(pageData) = 0 THEN FALSE
  ELSE \A i \in 1..Len(pageData) :
         checkIsRowSelected(s, pageData[i].id,
                            currentPage * rowsPerPage + (i - 1))

isCurrentPageIndeterminate(s, pageData, currentPage) ==
  IF Len(pageData) = 0 THEN FALSE
  ELSE LET selectionStates ==
             [i \in 1..Len(pageData) |->
                checkIsRowSelected(s, pageData[i].id,
                                   currentPage * rowsPerPage + (i - 1))]
           someSelected == \E i \in 1..Len(pageData) : selectionStates[i]
           allSelected == \A i \in 1..Len(pageData) : selectionStates[i]
       IN  someSelected /\ ~allSelected

\* ------------------------------------------------- the state machine
VARIABLES
  state,     \* the useReducer state of useArtworkSelection
  prev,      \* history: the state the last action was dispatched on
  last,      \* history: the last action dispatched, or the last fetch event
  data,      \* the useState values of useArtworkData
  prevData,  \* history: `data` before the last fetch-layer step
  requests,  \* the fetches in flight, each with its effect's isCancelled flag
  issued,    \* history: the number of fetches issued so far
  pending    \* ArtworkTable's effect on [totalRecords] is scheduled

vars == <<state, prev, last, data, prevData, requests, issued, pending>>

fetchVars == <<data, prevData, requests, issued, pending>>

\* error === null
NoError == "null"

\* useArtworkData after its first render and the first run of its effect:
\* the useState defaults, then setLoading(true), setError(null) and the
\* fetch of page 0.
FetchInit ==
  /\ data = [artworks |-> <<>>, loading |-> TRUE, error |-> NoError,
             totalRecords |-> 0, currentPage |-> 0, retryCount |-> 0]
  /\ prevData = data
  /\ requests = <<[n |-> 1, page |-> 0, isCancelled |-> FALSE]>>
  /\ issued = 1
  /\ pending = FALSE

Init ==
  /\ \E totalRecords \in 0..MaxTotal : state = createInitialState(totalRecords)
  /\ prev = state
  /\ last = [type |-> "INIT"]
  /\ FetchInit

\* dispatch(action)
Dispatch(action) ==
  /\ state' = selectionReducer(state, action)
  /\ prev' = state
  /\ last' = action
  /\ prevData' = data
  /\ UNCHANGED <<data, requests, issued, pending>>

\* The pages of the collection as the record source currently reports it.
Pages == 0..((MaxTotal - 1) \div rowsPerPage)

\* onRowSelect(id, absoluteIndex) for a row of the collection.
onRowSelect ==
  \E i \in 0..(state.totalRecords - 1) :
    Dispatch([type |-> "TOGGLE_ROW", payload |-> RowAt(i)])

SelectAllPage ==
  \E p \in Pages :
    Dispatch([type |-> "SELECT_ALL_PAGE",
              payload |-> [rows |-> PageRows(p, state.totalRecords)]])

DeselectAllPage ==
  \E p \in Pages :
    Dispatch([type |-> "DESELECT_ALL_PAGE",
              payload |-> [rows |-> PageRows(p, state.totalRecords)]])

SyncPageSelection ==
  \E p \in Pages, selected \in BOOLEAN :
    Dispatch([type |-> "SYNC_PAGE_SELECTION",
              payload |-> [rows |-> PageRows(p, state.totalRecords),
                           selected |-> selected]])

onBulkSelect ==
  \E count \in (-1)..(MaxTotal + 1) :
    Dispatch([type |-> "BULK_SELECT", payload |-> [count |-> count]])

onSelectAll == Dispatch([type |-> "SELECT_ALL"])

onClearSelection == Dispatch([type |-> "CLEAR_SELECTION"])

updateTotalRecords ==
  \E newTotal \in 0..MaxTotal :
    Dispatch([type |-> "UPDATE_TOTAL_RECORDS", payload |-> [total |-> newTotal]])

Next ==
  \/ onRowSelect
  \/ SelectAllPage
  \/ DeselectAllPage
  \/ SyncPageSelection
  \/ onBulkSelect
  \/ onSelectAll
  \/ onClearSelection
  \/ updateTotalRecords

Spec == Init /\ [][Next]_vars

\* ---------------------------------------------------- the query machine
\* The hook's queries, asked between commands.  A query leaves the reducer
\* state alone; `last` records the call and its result.  The presentation
\* layer computes the index of a row from the page it believes it shows, so
\* a query may pair an id with any index.
Ids == {IdAt(i) : i \in 0..(MaxTotal - 1)}

Query(call) ==
  /\ last' = call
  /\ UNCHANGED <<state, prev>>
  /\ UNCHANGED fetchVars

isRowSelected ==
  \E id \in Ids, absoluteIndex \in 0..MaxTotal :
    Query([type |-> "isRowSelected",
           payload |-> [id |-> id, absoluteIndex |-> absoluteIndex],
           result |-> checkIsRowSelected(state, id, absoluteIndex)])

isPageFullySelected ==
  \E page \in Pages, currentPage \in Pages :
    LET pageData == PageData(page, state.totalRecords)
    IN  Query([type |-> "isCurrentPageFullySelected",
               payload |-> [pageData |-> pageData, currentPage |-> currentPage],
               result |->
                 isCurrentPageFullySelected(state, pageData, currentPage)])

isPageIndeterminate ==
  \E page \in Pages, currentPage \in Pages :
    LET pageData == PageData(page, state.totalRecords)
    IN  Query([type |-> "isCurrentPageIndeterminate",
               payload |-> [pageData |-> pageData, currentPage |-> currentPage],
               result |->
                 isCurrentPageIndeterminate(state, pageData, currentPage)])

NextQuery ==
  \/ onRowSelect
  \/ onBulkSelect
  \/ isRowSelected
  \/ isPageFullySelected
  \/ isPageIndeterminate

SpecQuery == Init /\ [][NextQuery]_vars

\* -------------------------------------------------------- the fetch layer
\* useArtworkData: the effect that loads the current page, and the
\* completions of the fetches it issued.  A render that changes a dependency
\* of the effect runs the cleanup of the previous run and then the effect
\* again, before any other event is handled.
MaxIssued == 3

\* The messages of ArtworkServiceError a failed fetch can carry.
Messages ==
  {"Network error: Unable to connect to the Art Institute of Chicago API",
   "Parse Error: Failed to parse API response as JSON"}

\* All the variables of a step of the fetch layer.
FetchStep(event, newData, newRequests, newIssued, newState) ==
  /\ data' = newData
  /\ prevData' = data
  /\ requests' = newRequests
  /\ issued' = newIssued
  /\ state' = newState
  /\ prev' = state
  /\ last' = event
  /\ UNCHANGED pending

\* Mutant: the cleanup leaves the flag of the previous run alone.
cleanupKeepsFlag(reqs, n) == reqs

\* return () => { isCancelled = true; } of the effect run that issued fetch n
cleanup(reqs, n) ==
  [i \in DOMAIN reqs |->
     IF reqs[i].n = n THEN [reqs[i] EXCEPT !.isCancelled = TRUE] ELSE reqs[i]]

\* loadArtworks up to its await: setLoading(true); setError(null)
loadArtworks(d) == [d EXCEPT !.loading = TRUE, !.error = NoError]

\* The fetches in flight after the effect has run again for data d.
effectRequests(d) ==
  Append(cleanup(requests, issued),
         [n |-> issued + 1, page |-> d.currentPage, isCancelled |-> FALSE])

\* Mutant: a resolved fetch leaves loading as it is.
loadArtworksResolvedKeepsLoading(d, request, total) ==
  IF request.isCancelled THEN d
  ELSE [d EXCEPT !.artworks = PageData(request.page, total),
                 !.totalRecords = total]

\* loadArtworks after fetchArtworks resolved with the rows of the requested
\* page and the total the source reports.
loadArtworksResolved(d, request, total) ==
  IF request.isCancelled THEN d
  ELSE [d EXCEPT !.artworks = PageData(request.page, total),
                 !.totalRecords = total,
                 !.loading = FALSE]

\* Mutant: the catch block keeps the rows on display.
loadArtworksRejectedKeepsRows(d, request, message) ==
  IF request.isCancelled THEN d
  ELSE [d EXCEPT !.error = message, !.loading = FALSE]

\* loadArtworks after fetchArtworks threw.
loadArtworksRejected(d, request, message) ==
  IF request.isCancelled THEN d
  ELSE [d EXCEPT !.error = message, !.artworks = <<>>, !.loading = FALSE]

\* Mutant: the effect rebuilds the selection on every completed fetch.
totalRecordsEffectResets(s, oldTotal, newTotal) == createInitialState(newTotal)

\* Mutant: the effect runs and dispatches nothing.
totalRecordsEffectSkips(s, oldTotal, newTotal) == s

\* ArtworkTable's effect on [totalRecords]: updateTotalRecords(totalRecords)
totalRecordsEffect(s, oldTotal, newTotal) ==
  IF newTotal # oldTotal
  THEN selectionReducer(s, [type |-> "UPDATE_TOTAL_RECORDS",
                            payload |-> [total |-> newTotal]])
  ELSE s

Remove(seq, i) == SubSeq(seq, 1, i - 1) \o SubSeq(seq, i + 1, Len(seq))

\* The table after its first render and the first run of its effects.
InitApp ==
  /\ state = selectionReducer(createInitialState(0),
                              [type |-> "UPDATE_TOTAL_RECORDS",
                               payload |-> [total |-> 0]])
  /\ prev = state
  /\ last = [type |-> "INIT"]
  /\ FetchInit

\* onPageChange(newPage)
onPageChange ==
  \E newPage \in {-1} \cup Pages :
    LET event == [type |-> "PAGE_CHANGE", newPage |-> newPage]
        d == [data EXCEPT !.currentPage = newPage]
    IN  IF newPage < 0 \/ newPage = data.currentPage
        THEN FetchStep(event, data, requests, issued, state)
        ELSE /\ issued < MaxIssued
             /\ FetchStep(event, loadArtworks(d), effectRequests(d),
                          issued + 1, state)

\* retry()
retry ==
  LET d == [data EXCEPT !.retryCount = @ + 1]
  IN  /\ issued < MaxIssued
      /\ FetchStep([type |-> "RETRY"], loadArtworks(d), effectRequests(d),
                   issued + 1, state)

\* A fetch in flight resolves.
FetchSuccess ==
  \E i \in DOMAIN requests, total \in 0..MaxTotal :
    LET d == loadArtworksResolved(data, requests[i], total)
    IN  FetchStep([type |-> "FETCH_SUCCESS", request |-> requests[i],
                   total |-> total],
                  d, Remove(requests, i), issued,
                  totalRecordsEffect(state, data.totalRecords, d.totalRecords))

\* A fetch in flight throws.
FetchFailure ==
  \E i \in DOMAIN requests, message \in Messages :
    FetchStep([type |-> "FETCH_FAILURE", request |-> requests[i],
               message |-> message],
              loadArtworksRejected(data, requests[i], message),
              Remove(requests, i), issued, state)

NextFetch ==
  \/ onPageChange
  \/ retry
  \/ FetchSuccess
  \/ FetchFailure

SpecFetch == InitApp /\ [][NextFetch]_vars

\* Fetch number n settles, one way or the other.
Completes(n) ==
  /\ FetchSuccess \/ FetchFailure
  /\ last'.request.n = n

\* The fetch layer with a source that answers every request: fetchArtworks
\* returns or throws for each call.
SpecFetchFair ==
  /\ InitApp
  /\ [][NextFetch]_vars
  /\ \A n \in 1..MaxIssued : WF_vars(Completes(n))

\* ---------------------------------------------------------- the table
\* ArtworkTable: the fetch layer, the selection engine and the handlers that
\* connect them.  The DataTable is masked while loading, so its checkboxes
\* act on the rows of a page that has arrived.
rowCheckboxChange ==
  \E rowIndex \in 0..(Len(data.artworks) - 1) :
    /\ ~data.loading
    /\ Dispatch([type |-> "TOGGLE_ROW",
                 payload |-> [id |-> data.artworks[rowIndex + 1].id,
                              absoluteIndex |->
                                data.currentPage * rowsPerPage + rowIndex]])

handleHeaderCheckboxChange ==
  /\ ~data.loading
  /\ Dispatch(onSelectAllCurrentPage(state, data.artworks, data.currentPage))

handleBulkSelectSubmit ==
  \E bulkSelectValue \in 0..(MaxTotal + 1) :
    Dispatch([type |-> "BULK_SELECT", payload |-> [count |-> bulkSelectValue]])

NextApp ==
  \/ onPageChange
  \/ retry
  \/ FetchSuccess
  \/ FetchFailure
  \/ rowCheckboxChange
  \/ handleHeaderCheckboxChange
  \/ handleBulkSelectSubmit
  \/ onClearSelection

SpecApp == InitApp /\ [][NextApp]_vars

\* ------------------------------------------------ the table, effect by effect
\* The same table with the effect on [totalRecords] as a step of its own:
\* a fetch that resolves commits the new rows and total and schedules the
\* effect; the effect then dispatches UPDATE_TOTAL_RECORDS.  React runs a
\* scheduled effect before it renders another update, so no step of the
\* fetch layer comes between the two; a handler that only dispatches to the
\* reducer may.  Of those handlers the table keeps the two whose commands
\* read or reset what depends on the total, the bulk selection and the clear.
FetchResolved ==
  \E i \in DOMAIN requests, total \in 0..MaxTotal :
    LET d == loadArtworksResolved(data, requests[i], total)
    IN  /\ data' = d
        /\ prevData' = data
        /\ requests' = Remove(requests, i)
        /\ pending' = (d.totalRecords # data.totalRecords)
        /\ prev' = state
        /\ last' = [type |-> "FETCH_SUCCESS", request |-> requests[i],
                    total |-> total]
        /\ UNCHANGED <<state, issued>>

runTotalRecordsEffect ==
  /\ pending
  /\ state' = totalRecordsEffect(state, state.totalRecords, data.totalRecords)
  /\ prev' = state
  /\ last' = [type |-> "UPDATE_TOTAL_RECORDS",
              payload |-> [total |-> data.totalRecords]]
  /\ prevData' = data
  /\ pending' = FALSE
  /\ UNCHANGED <<data, requests, issued>>

NextEffect ==
  \/ ~pending /\ onPageChange
  \/ ~pending /\ retry
  \/ ~pending /\ FetchResolved
  \/ ~pending /\ FetchFailure
  \/ runTotalRecordsEffect
  \/ handleBulkSelectSubmit
  \/ onClearSelection

SpecEffect ==
  InitApp /\ [][NextEffect]_vars /\ WF_vars(runTotalRecordsEffect)

\* ------------------------------------------------- the table, rendering
\* The table with the render of its row checkboxes: the DataTable renders
\* the rows the fetch layer holds on every render, loading or not, and each
\* row's template asks isRowSelected for the pair it computes.
rowCheckboxTemplate ==
  \E rowIndex \in 0..(Len(data.artworks) - 1) :
    LET id == data.artworks[rowIndex + 1].id
        absoluteIndex == data.currentPage * rowsPerPage + rowIndex
    IN  Query([type |-> "isRowSelected",
               payload |-> [id |-> id, absoluteIndex |-> absoluteIndex],
               result |-> checkIsRowSelected(state, id, absoluteIndex)])

NextRender ==
  \/ onPageChange
  \/ retry
  \/ FetchSuccess
  \/ FetchFailure
  \/ rowCheckboxTemplate
  \/ rowCheckboxChange
  \/ handleHeaderCheckboxChange

SpecRender == InitApp /\ [][NextRender]_vars

\* ------------------------------------------------------------ type check
Modes == {"NONE", "EXPLICIT", "RANGE", "ALL"}

TypeOK ==
  /\ state.mode \in Modes
  /\ state.totalRecords \in 0..MaxTotal
  /\ state.rangeCount \in 0..MaxTotal

\* ======================================================================
\* Properties
\* ======================================================================
selectedCount == calculateSelectedCount(state)

isSelected(s, row) == checkIsRowSelected(s, row.id, row.absoluteIndex)

\* The records of the collection as the record source currently reports it.
Collection(s) == {RowAt(i) : i \in 0..(s.totalRecords - 1)}

\* The records that have been named in a command.
NamedRows(s) ==
  {[id |-> id, absoluteIndex |-> s.idToIndexCache[id]] :
     id \in DOMAIN s.idToIndexCache}

\* The contents of the four override sets, order of insertion forgotten.
OverrideContents(s) ==
  [includedIds |-> Range(s.overrides.includedIds),
   excludedIds |-> Range(s.overrides.excludedIds),
   includedIndices |-> Range(s.overrides.includedIndices),
   excludedIndices |-> Range(s.overrides.excludedIndices)]

\* min(max(count, 0), totalRecords)
Clamp(count, total) == Min(Max(count, 0), total)

\* C1: in every reachable state 0 <= selectedCount() <= totalRecords.
C1_CountWithinTotal ==
  0 <= selectedCount /\ selectedCount <= state.totalRecords

\* C2: when every record named so far lies in the collection (its index is
\* below totalRecords), selectedCount() equals the number of records of the
\* collection for which isSelected holds, in every mode.
C2_CountMatchesMembership ==
  NamedRows(state) \subseteq Collection(state) =>
    selectedCount
      = Cardinality({r \in Collection(state) : isSelected(state, r)})

\* C3: TOGGLE(id, index) flips isSelected(id, index).
C3_ToggleFlips ==
  last.type = "TOGGLE_ROW" =>
    isSelected(state, last.payload) = ~isSelected(prev, last.payload)

\* C3 witness: a toggle re-selected a row whose exclusion had become
\* redundant (it lay beyond the range), and a toggle happened.
C3_Witness ==
  /\ last.type = "TOGGLE_ROW"
  /\ prev.mode = "RANGE"
  /\ ~isSelected(prev, last.payload)
  /\ SetHas(prev.overrides.excludedIds, last.payload.id)
  /\ ~wouldBaseModeSelect(prev, last.payload.absoluteIndex)
  /\ isSelected(state, last.payload)

\* C4: TOGGLE(id, i) applied twice in a row restores the prior isSelected
\* value and the prior contents of the four override sets.  (`prev` is the
\* state before the first toggle, `state` the one between the two.)
C4_DoubleToggleRestores ==
  last.type = "TOGGLE_ROW" =>
    LET again == selectionReducer(state, last)
    IN  /\ isSelected(again, last.payload) = isSelected(prev, last.payload)
        /\ OverrideContents(again) = OverrideContents(prev)

\* C5: no override is redundant with the base mode: ALL has no included
\* override, NONE and EXPLICIT have no excluded override, and under RANGE(n)
\* included indices are >= n and excluded indices are < n.
C5_NoRedundantOverride ==
  LET oc == OverrideContents(state)
  IN  /\ state.mode = "ALL" =>
           oc.includedIds = {} /\ oc.includedIndices = {}
      /\ state.mode \in {"NONE", "EXPLICIT"} =>
           oc.excludedIds = {} /\ oc.excludedIndices = {}
      /\ state.mode = "RANGE" =>
           /\ \A i \in oc.includedIndices : i >= state.rangeCount
           /\ \A i \in oc.excludedIndices : i < state.rangeCount

\* C6: no id is both in includedIds and excludedIds, and no index is both in
\* includedIndices and excludedIndices.
C6_IncludedExcludedDisjoint ==
  LET oc == OverrideContents(state)
  IN  /\ oc.includedIds \cap oc.excludedIds = {}
      /\ oc.includedIndices \cap oc.excludedIndices = {}

\* C6 witness: a toggle moved a record from the excluded sets to the
\* included sets.
C6_Witness ==
  /\ last.type = "TOGGLE_ROW"
  /\ SetHas(prev.overrides.excludedIds, last.payload.id)
  /\ SetHas(prev.overrides.excludedIndices, last.payload.absoluteIndex)
  /\ SetHas(state.overrides.includedIds, last.payload.id)
  /\ SetHas(state.overrides.includedIndices, last.payload.absoluteIndex)

\* A toggle that selects a record while the mode is NONE yields EXPLICIT.
ToggleFromNonePromotes ==
  (/\ last.type = "TOGGLE_ROW"
   /\ prev.mode = "NONE"
   /\ isSelected(state, last.payload)) => state.mode = "EXPLICIT"

\* C7 (as stated): a selecting toggle from NONE yields EXPLICIT, and the mode
\* goes from a non-NONE mode to NONE only by CLEAR or by BULK_SELECT(0).
C7_ModeMonotonicity ==
  /\ ToggleFromNonePromotes
  /\ (prev.mode # "NONE" /\ state.mode = "NONE") =>
       \/ last.type = "CLEAR_SELECTION"
       \/ (last.type = "BULK_SELECT" /\ last.payload.count = 0)

\* C7 (amended): a selecting toggle from NONE yields EXPLICIT, and the mode
\* goes from a non-NONE mode to NONE only by CLEAR or by a BULK_SELECT whose
\* count clamps to 0 (count <= 0, or totalRecords = 0).
C7_ModeMonotonicityClamped ==
  /\ ToggleFromNonePromotes
  /\ (prev.mode # "NONE" /\ state.mode = "NONE") =>
       \/ last.type = "CLEAR_SELECTION"
       \/ (/\ last.type = "BULK_SELECT"
           /\ Clamp(last.payload.count, prev.totalRecords) = 0)

\* C7 witness: a BULK_SELECT with a positive count took a non-NONE mode back
\* to NONE because the collection was empty.
C7_Witness ==
  /\ last.type = "BULK_SELECT"
  /\ last.payload.count > 0
  /\ prev.mode = "EXPLICIT"
  /\ state.mode = "NONE"

\* C8: BULK_SELECT(count) clamps: afterwards selectedCount() is
\* min(max(count, 0), totalRecords), and the mode is NONE when that is 0.
C8_BulkSelectClamps ==
  last.type = "BULK_SELECT" =>
    LET n == Clamp(last.payload.count, state.totalRecords)
    IN  /\ selectedCount = n
        /\ last.payload.count > state.totalRecords =>
             selectedCount = state.totalRecords
        /\ n = 0 => state.mode = "NONE"

\* C8 witness: a BULK_SELECT above the total, issued over manual overrides,
\* selected the whole non-empty collection.
C8_Witness ==
  /\ last.type = "BULK_SELECT"
  /\ last.payload.count > state.totalRecords
  /\ state.totalRecords > 0
  /\ Len(prev.overrides.excludedIds) > 0
  /\ selectedCount = state.totalRecords

\* Membership reconstructed from a descriptor alone: an absent field means
\* "no override of that kind"; the default is the mode's.
DescriptorField(d, field) == IF field \in DOMAIN d THEN Range(d[field]) ELSE {}

MemberByDescriptor(d, row) ==
  IF row.id \in DescriptorField(d, "excludedIds") THEN FALSE
  ELSE IF row.id \in DescriptorField(d, "includedIds") THEN TRUE
  ELSE IF row.absoluteIndex \in DescriptorField(d, "excludedIndices") THEN FALSE
  ELSE CASE d.mode = "ALL" -> TRUE
         [] d.mode = "RANGE" -> row.absoluteIndex < d.rangeCount
         [] OTHER -> FALSE

\* C9: membership reconstructed from getSelectionDescriptor() agrees with
\* isSelected for every record named in a command.
C9_DescriptorRoundTrip ==
  \A r \in NamedRows(state) :
    MemberByDescriptor(getSelectionDescriptor(state), r) = isSelected(state, r)

\* C10: the descriptor carries exactly the fields of its mode: NONE only
\* mode; EXPLICIT mode and includedIds (the ids of includedIds); ALL mode and
\* excludedIds iff non-empty; RANGE mode, rangeCount, and excludedIds /
\* excludedIndices iff the respective set is non-empty.
C10_DescriptorFields ==
  LET d == getSelectionDescriptor(state)
      ov == state.overrides
      optional(field, set) == IF Len(set) > 0 THEN {field} ELSE {}
  IN  /\ d.mode = state.mode
      /\ state.mode = "NONE" => DOMAIN d = {"mode"}
      /\ state.mode = "EXPLICIT" =>
           /\ DOMAIN d = {"mode", "includedIds"}
           /\ d.includedIds = ov.includedIds
      /\ state.mode = "ALL" =>
           /\ DOMAIN d = {"mode"} \cup optional("excludedIds", ov.excludedIds)
           /\ "excludedIds" \in DOMAIN d => d.excludedIds = ov.excludedIds
      /\ state.mode = "RANGE" =>
           /\ DOMAIN d = {"mode", "rangeCount"}
                \cup optional("excludedIds", ov.excludedIds)
                \cup optional("excludedIndices", ov.excludedIndices)
           /\ d.rangeCount = state.rangeCount
           /\ "excludedIds" \in DOMAIN d => d.excludedIds = ov.excludedIds
           /\ "excludedIndices" \in DOMAIN d =>
                d.excludedIndices = ov.excludedIndices

\* C10 witness: a RANGE state with excluded and included overrides, whose
\* descriptor carries the excluded ones and omits the included ones.
C10_Witness ==
  /\ state.mode = "RANGE"
  /\ Len(state.overrides.excludedIds) > 0
  /\ Len(state.overrides.includedIds) > 0
  /\ DOMAIN getSelectionDescriptor(state)
       = {"mode", "rangeCount", "excludedIds", "excludedIndices"}

\* Every (id, index) pair a query can name, matching or not.
AnyPairs == {[id |-> id, absoluteIndex |-> i] : id \in Ids, i \in 0..MaxTotal}

\* NONE false, EXPLICIT false, ALL true, RANGE(n) index < n.
BaseDefault(s, absoluteIndex) ==
  \/ s.mode = "ALL"
  \/ s.mode = "RANGE" /\ absoluteIndex < s.rangeCount

\* C11: isSelected(id, index) resolves in the order excludedIds, includedIds,
\* excludedIndices, includedIndices, base-mode default.
C11_Precedence ==
  last.type = "isRowSelected" =>
    LET oc == OverrideContents(state)
        id == last.payload.id
        index == last.payload.absoluteIndex
        byId == id \in oc.excludedIds \cup oc.includedIds
        byIndex == index \in oc.excludedIndices \cup oc.includedIndices
    IN  /\ id \in oc.excludedIds => ~last.result
        /\ (id \notin oc.excludedIds /\ id \in oc.includedIds) => last.result
        /\ (~byId /\ index \in oc.excludedIndices) => ~last.result
        /\ (~byId /\ index \notin oc.excludedIndices
              /\ index \in oc.includedIndices) => last.result
        /\ (~byId /\ ~byIndex) => last.result = BaseDefault(state, index)

\* C11 witness: a query for a record whose id is in includedIds and whose
\* index is in excludedIndices answered "selected", in a state where some id
\* of excludedIds sits with an index of includedIndices.
C11_Witness ==
  /\ last.type = "isRowSelected"
  /\ SetHas(state.overrides.includedIds, last.payload.id)
  /\ SetHas(state.overrides.excludedIndices, last.payload.absoluteIndex)
  /\ last.result
  /\ \E r \in AnyPairs :
       /\ SetHas(state.overrides.excludedIds, r.id)
       /\ SetHas(state.overrides.includedIndices, r.absoluteIndex)
       /\ ~isSelected(state, r)

\* C12: after BULK_SELECT(count) the four override sets are empty and a pair
\* (id, index) is selected iff index < N, N the count clamped to
\* [0, totalRecords].
C12_BulkSelectIsFirstN ==
  last.type = "BULK_SELECT" =>
    LET n == Clamp(last.payload.count, state.totalRecords)
    IN  /\ state.overrides = createFreshOverrides
        /\ \A r \in AnyPairs : isSelected(state, r) = (r.absoluteIndex < n)

\* C12 witness: a BULK_SELECT issued over manual inclusions and exclusions
\* left a proper, non-empty prefix selected.
C12_Witness ==
  /\ last.type = "BULK_SELECT"
  /\ Len(prev.overrides.excludedIds) > 0
  /\ Len(prev.overrides.includedIds) > 0
  /\ 0 < state.rangeCount /\ state.rangeCount < state.totalRecords
  /\ state.overrides = createFreshOverrides

\* C13: after SELECT_ALL the mode is ALL, the parameter is totalRecords, the
\* override sets are empty, every pair is selected and selectedCount() is
\* totalRecords.
C13_SelectAll ==
  last.type = "SELECT_ALL" =>
    /\ state.mode = "ALL"
    /\ state.rangeCount = state.totalRecords
    /\ state.overrides = createFreshOverrides
    /\ \A r \in AnyPairs : isSelected(state, r)
    /\ selectedCount = state.totalRecords

\* C13 witness: SELECT_ALL issued over a RANGE selection with exclusions.
C13_Witness ==
  /\ last.type = "SELECT_ALL"
  /\ prev.mode = "RANGE"
  /\ Len(prev.overrides.excludedIds) > 0
  /\ state.totalRecords > 0
  /\ selectedCount = state.totalRecords

\* C14: CLEAR yields mode NONE, parameter 0 and empty override sets, so no
\* pair is selected and selectedCount() is 0; totalRecords and the caches are
\* unchanged; the result is the state BULK_SELECT(0) would give.
C14_Clear ==
  last.type = "CLEAR_SELECTION" =>
    /\ state.mode = "NONE"
    /\ state.rangeCount = 0
    /\ state.overrides = createFreshOverrides
    /\ \A r \in AnyPairs : ~isSelected(state, r)
    /\ selectedCount = 0
    /\ state.totalRecords = prev.totalRecords
    /\ state.indexToIdCache = prev.indexToIdCache
    /\ state.idToIndexCache = prev.idToIndexCache
    /\ state = selectionReducer(prev, [type |-> "BULK_SELECT",
                                       payload |-> [count |-> 0]])

\* C14 witness: CLEAR issued on a selection with overrides and a non-empty
\* cache.
C14_Witness ==
  /\ last.type = "CLEAR_SELECTION"
  /\ prev.mode = "ALL"
  /\ Len(prev.overrides.excludedIds) > 0
  /\ DOMAIN state.idToIndexCache # {}
  /\ state.totalRecords > 0

\* UPDATE_TOTAL(newTotal) sets totalRecords, clamps the parameter under
\* RANGE, and leaves mode, override sets and caches alone.
UpdateTotalFrame ==
  last.type = "UPDATE_TOTAL_RECORDS" =>
    /\ state.totalRecords = last.payload.total
    /\ state.rangeCount = IF prev.mode = "RANGE"
                          THEN Min(prev.rangeCount, last.payload.total)
                          ELSE prev.rangeCount
    /\ state.mode = prev.mode
    /\ state.overrides = prev.overrides
    /\ state.indexToIdCache = prev.indexToIdCache
    /\ state.idToIndexCache = prev.idToIndexCache

\* The state after UPDATE_TOTAL(t) is dispatched on s.
AfterUpdateTotal(s, t) ==
  selectionReducer(s, [type |-> "UPDATE_TOTAL_RECORDS", payload |-> [total |-> t]])

\* C15 (as stated): the frame of UPDATE_TOTAL, and after BULK_SELECT(n)
\* followed by UPDATE_TOTAL(t) the mode is RANGE and selectedCount() is
\* min(n, t).
C15_UpdateTotal ==
  /\ UpdateTotalFrame
  /\ last.type = "BULK_SELECT" =>
       \A t \in 0..MaxTotal :
         /\ AfterUpdateTotal(state, t).mode = "RANGE"
         /\ calculateSelectedCount(AfterUpdateTotal(state, t))
              = Min(last.payload.count, t)

\* C15 (amended): the frame of UPDATE_TOTAL, and after BULK_SELECT(n)
\* followed by UPDATE_TOTAL(t), with N the count n clamped to
\* [0, totalRecords] by the BULK_SELECT, selectedCount() is min(N, t) and the
\* mode is RANGE when N > 0 and NONE when N = 0.
C15_UpdateTotalClamped ==
  /\ UpdateTotalFrame
  /\ last.type = "BULK_SELECT" =>
       LET n == Clamp(last.payload.count, prev.totalRecords)
       IN  \A t \in 0..MaxTotal :
             /\ AfterUpdateTotal(state, t).mode
                  = IF n > 0 THEN "RANGE" ELSE "NONE"
             /\ calculateSelectedCount(AfterUpdateTotal(state, t)) = Min(n, t)

\* C15 witness: an UPDATE_TOTAL below the range of a fresh bulk selection
\* shrank the count to the new total.
C15_Witness ==
  /\ last.type = "UPDATE_TOTAL_RECORDS"
  /\ prev.mode = "RANGE"
  /\ prev.overrides = createFreshOverrides
  /\ 0 < last.payload.total /\ last.payload.total < prev.rangeCount
  /\ state.mode = "RANGE"
  /\ selectedCount = last.payload.total

\* The page a page command's rows came from.
PageDataOf(rows) == [i \in 1..Len(rows) |-> [id |-> rows[i].id]]
CurrentPageOf(rows) == rows[1].absoluteIndex \div rowsPerPage

\* C16: after SELECT_PAGE(rows) every row of rows is selected (so a
\* non-empty page is fully selected and not indeterminate, and toggling one
\* row of a page of two or more rows makes it indeterminate); after
\* DESELECT_PAGE(rows) no row of rows is selected.
C16_PageCommands ==
  /\ last.type = "SELECT_ALL_PAGE" =>
       LET rows == last.payload.rows
       IN  /\ \A i \in 1..Len(rows) : isSelected(state, rows[i])
           /\ Len(rows) > 0 =>
                /\ isCurrentPageFullySelected(
                     state, PageDataOf(rows), CurrentPageOf(rows))
                /\ ~isCurrentPageIndeterminate(
                     state, PageDataOf(rows), CurrentPageOf(rows))
           /\ Len(rows) >= 2 =>
                \A i \in 1..Len(rows) :
                  isCurrentPageIndeterminate(
                    selectionReducer(state, [type |-> "TOGGLE_ROW",
                                             payload |-> rows[i]]),
                    PageDataOf(rows), CurrentPageOf(rows))
  /\ last.type = "DESELECT_ALL_PAGE" =>
       \A i \in 1..Len(last.payload.rows) :
         ~isSelected(state, last.payload.rows[i])

\* C16 witness: SELECT_PAGE on a two-row page that had an excluded row and
\* an unselected row.
C16_Witness ==
  /\ last.type = "SELECT_ALL_PAGE"
  /\ Len(last.payload.rows) = rowsPerPage
  /\ \E i, j \in 1..Len(last.payload.rows) :
       /\ SetHas(prev.overrides.excludedIds, last.payload.rows[i].id)
       /\ ~wouldBaseModeSelect(prev, last.payload.rows[j].absoluteIndex)
       /\ ~isSelected(prev, last.payload.rows[j])
  /\ isCurrentPageFullySelected(state, PageDataOf(last.payload.rows),
                                CurrentPageOf(last.payload.rows))

\* The rows of a page query, paired with the indices the query gives them.
QueriedRows == rowsWithIndices(last.payload.pageData, last.payload.currentPage)

\* C17: isPageFullySelected is true iff the page is non-empty and every row
\* is selected; isPageIndeterminate is true iff the page is non-empty, some
\* row is selected and some row is not; they are never both true and are
\* both false on an empty page.
C17_PageQueries ==
  /\ last.type = "isCurrentPageFullySelected" =>
       last.result = (/\ Len(QueriedRows) > 0
                      /\ \A i \in 1..Len(QueriedRows) :
                           isSelected(state, QueriedRows[i]))
  /\ last.type = "isCurrentPageIndeterminate" =>
       last.result = (/\ Len(QueriedRows) > 0
                      /\ \E i \in 1..Len(QueriedRows) :
                           isSelected(state, QueriedRows[i])
                      /\ \E i \in 1..Len(QueriedRows) :
                           ~isSelected(state, QueriedRows[i]))
  /\ \A page \in Pages, currentPage \in Pages :
       LET pageData == PageData(page, state.totalRecords)
           full == isCurrentPageFullySelected(state, pageData, currentPage)
           indeterminate ==
             isCurrentPageIndeterminate(state, pageData, currentPage)
       IN  /\ ~(full /\ indeterminate)
           /\ Len(pageData) = 0 => (~full /\ ~indeterminate)

\* C17 witness: an indeterminate answer for a page with one selected and one
\* unselected row, in a state where some page is empty.
C17_Witness ==
  /\ last.type = "isCurrentPageIndeterminate"
  /\ last.result
  /\ Len(last.payload.pageData) >= 2
  /\ \E page \in Pages : Len(PageData(page, state.totalRecords)) = 0

\* The values the fetch layer owns.
Owned(d) == <<d.artworks, d.totalRecords, d.error, d.loading>>

FetchCompleted == last.type \in {"FETCH_SUCCESS", "FETCH_FAILURE"}

\* C18: the completion, success or failure, of a fetch superseded by a later
\* page change or retry leaves records, totalRecords, error and loading as
\* they were; a completion that changes them is that of the most recently
\* issued request.
C18_StaleFetchNeverWrites ==
  FetchCompleted =>
    /\ last.request.n < issued => Owned(data) = Owned(prevData)
    /\ Owned(data) # Owned(prevData) =>
         /\ last.request.n = issued
         /\ last.request.page = data.currentPage

\* C18 witness: a superseded fetch of another page resolved with another
\* total while the newer request was still in flight.
C18_Witness ==
  /\ last.type = "FETCH_SUCCESS"
  /\ last.request.n < issued
  /\ last.request.page # data.currentPage
  /\ last.total # data.totalRecords
  /\ Len(PageData(last.request.page, last.total)) > 0
  /\ \E i \in DOMAIN requests : requests[i].n = issued

\* C19: a failure of the current fetch gives a non-null error, no records
\* and loading false, with totalRecords and currentPage unchanged; a retry
\* issues a new request for the same currentPage under a flag of its own,
\* and error is null while a current request is in flight.
C19_RetryableError ==
  /\ (last.type = "FETCH_FAILURE" /\ ~last.request.isCancelled) =>
       /\ data.error # NoError
       /\ data.error = last.message
       /\ data.artworks = <<>>
       /\ ~data.loading
       /\ data.totalRecords = prevData.totalRecords
       /\ data.currentPage = prevData.currentPage
  /\ last.type = "RETRY" =>
       /\ data.currentPage = prevData.currentPage
       /\ data.error = NoError
       /\ \E i \in DOMAIN requests :
            /\ requests[i] = [n |-> issued, page |-> data.currentPage,
                              isCancelled |-> FALSE]
            /\ \A j \in DOMAIN requests : j # i => requests[j].n < issued
  /\ \A i \in DOMAIN requests :
       ~requests[i].isCancelled => data.error = NoError

\* C19 witness: a retry issued from the error state, on a page other than
\* the first, with records known to exist.
C19_Witness ==
  /\ last.type = "RETRY"
  /\ prevData.error # NoError
  /\ prevData.artworks = <<>>
  /\ ~prevData.loading
  /\ data.currentPage > 0
  /\ data.totalRecords > 0
  /\ data.loading

\* A page change, a failed fetch, or a completed fetch that leaves the
\* total as it was.
NavigationStep ==
  \/ last.type = "PAGE_CHANGE"
  \/ last.type = "FETCH_FAILURE"
  \/ last.type = "FETCH_SUCCESS" /\ data.totalRecords = prevData.totalRecords

\* C20: a page change, and the completion of a fetch that does not change
\* the total, leave the mode, the parameter and the four override sets as
\* they were, so every pair (id, index) is selected after it iff it was
\* before.
C20_SelectionPersists ==
  NavigationStep =>
    /\ state.mode = prev.mode
    /\ state.rangeCount = prev.rangeCount
    /\ state.overrides = prev.overrides
    /\ \A r \in AnyPairs : isSelected(state, r) = isSelected(prev, r)

\* C20 witness: the fetch of a later page arrived, with the total
\* unchanged, under a RANGE selection carrying an inclusion and an exclusion.
C20_Witness ==
  /\ last.type = "FETCH_SUCCESS"
  /\ ~last.request.isCancelled
  /\ last.request.page > 0
  /\ last.total = prevData.totalRecords
  /\ Len(data.artworks) > 0
  /\ state.mode = "RANGE"
  /\ Len(state.overrides.includedIds) > 0
  /\ Len(state.overrides.excludedIds) > 0

\* Every entry of the caches of `old` is an entry of the caches of `new`.
CachesKept(old, new) ==
  /\ \A id \in DOMAIN old.idToIndexCache :
       /\ MapHas(new.idToIndexCache, id)
       /\ new.idToIndexCache[id] = old.idToIndexCache[id]
  /\ \A index \in DOMAIN old.indexToIdCache :
       /\ MapHas(new.indexToIdCache, index)
       /\ new.indexToIdCache[index] = old.indexToIdCache[index]

\* The pair of `row` is in both caches of s.
Recorded(s, row) ==
  /\ MapHas(s.idToIndexCache, row.id)
  /\ s.idToIndexCache[row.id] = row.absoluteIndex
  /\ MapHas(s.indexToIdCache, row.absoluteIndex)
  /\ s.indexToIdCache[row.absoluteIndex] = row.id

PageCommands == {"SELECT_ALL_PAGE", "DESELECT_ALL_PAGE", "SYNC_PAGE_SELECTION"}

CachedIndices(s, ids) ==
  {s.idToIndexCache[id] : id \in Range(ids) \cap DOMAIN s.idToIndexCache}

\* The ids of a set with no cached index.
UnknownIds(s, ids) == Range(ids) \ DOMAIN s.idToIndexCache

\* E: the distinct excluded records.
DistinctExcluded(s) ==
  Cardinality(Range(s.overrides.excludedIndices)
                \cup CachedIndices(s, s.overrides.excludedIds))
    + Cardinality(UnknownIds(s, s.overrides.excludedIds))

\* I: the distinct included records outside the base mode's default range.
DistinctIncludedOutside(s) ==
  Cardinality({index \in Range(s.overrides.includedIndices)
                           \cup CachedIndices(s, s.overrides.includedIds) :
                 ~wouldBaseModeSelect(s, index)})
    + Cardinality(UnknownIds(s, s.overrides.includedIds))

\* C22: in RANGE and ALL selectedCount() is
\* max(0, min(parameter, totalRecords) - E + I), every record counted once.
C22_CountFormula ==
  state.mode \in {"RANGE", "ALL"} =>
    selectedCount = Max(0, Min(state.rangeCount, state.totalRecords)
                             - DistinctExcluded(state)
                             + DistinctIncludedOutside(state))

\* C23: TOGGLE(id, index) leaves totalRecords and the parameter alone, and
\* the selection of every pair that shares neither the id nor the index.
C23_ToggleTouchesOneRecord ==
  last.type = "TOGGLE_ROW" =>
    /\ state.totalRecords = prev.totalRecords
    /\ state.rangeCount = prev.rangeCount
    /\ \A r \in AnyPairs :
         (r.id # last.payload.id
            /\ r.absoluteIndex # last.payload.absoluteIndex) =>
           isSelected(state, r) = isSelected(prev, r)

\* C23 witness: a toggle flipped its record while another record was
\* excluded and a third was included.
C23_Witness ==
  /\ last.type = "TOGGLE_ROW"
  /\ isSelected(state, last.payload) # isSelected(prev, last.payload)
  /\ \E a, b \in AnyPairs :
       /\ a.id # last.payload.id /\ b.id # last.payload.id
       /\ SetHas(state.overrides.excludedIds, a.id)
       /\ SetHas(state.overrides.includedIds, b.id)

PageAction(type, rows) == [type |-> type, payload |-> [rows |-> rows]]

SyncAction(rows, selected) ==
  [type |-> "SYNC_PAGE_SELECTION",
   payload |-> [rows |-> rows, selected |-> selected]]

\* C24: in every state and for every page SYNC_PAGE(rows, true) gives the
\* state SELECT_PAGE(rows) gives, and SYNC_PAGE(rows, false) the state
\* DESELECT_PAGE(rows) gives.
C24_SyncIsPageCommand ==
  /\ \A p \in Pages :
       LET rows == PageRows(p, state.totalRecords)
       IN  /\ selectionReducer(state, SyncAction(rows, TRUE))
                = selectionReducer(state, PageAction("SELECT_ALL_PAGE", rows))
           /\ selectionReducer(state, SyncAction(rows, FALSE))
                = selectionReducer(state, PageAction("DESELECT_ALL_PAGE", rows))
  /\ last.type = "SYNC_PAGE_SELECTION" =>
       state = selectionReducer(
                 prev, PageAction(IF last.payload.selected
                                  THEN "SELECT_ALL_PAGE"
                                  ELSE "DESELECT_ALL_PAGE",
                                  last.payload.rows))

\* C24 witness: SYNC_PAGE(rows, true) on a full page that held an excluded
\* row and a row outside the base range.
C24_Witness ==
  /\ last.type = "SYNC_PAGE_SELECTION"
  /\ last.payload.selected
  /\ Len(last.payload.rows) = rowsPerPage
  /\ \E i, j \in 1..Len(last.payload.rows) :
       /\ SetHas(prev.overrides.excludedIds, last.payload.rows[i].id)
       /\ ~SetHas(state.overrides.excludedIds, last.payload.rows[i].id)
       /\ ~SetHas(prev.overrides.includedIds, last.payload.rows[j].id)
       /\ SetHas(state.overrides.includedIds, last.payload.rows[j].id)

\* The state after TOGGLE has been applied in turn to each of rows[1..n]
\* whose selection in `start` is `selected`.
RECURSIVE toggleEach(_, _, _, _)
toggleEach(start, rows, n, selected) ==
  IF n = 0 THEN start
  ELSE LET s == toggleEach(start, rows, n - 1, selected)
       IN  IF isSelected(start, rows[n]) = selected
           THEN selectionReducer(s, [type |-> "TOGGLE_ROW", payload |-> rows[n]])
           ELSE s

\* Same mode, parameter and override sets, and the same cache entries for
\* the rows of `rows` whose selection in `start` is `selected`.
SameSelection(a, b, start, rows, selected) ==
  /\ a.mode = b.mode
  /\ a.rangeCount = b.rangeCount
  /\ a.totalRecords = b.totalRecords
  /\ a.overrides = b.overrides
  /\ \A i \in 1..Len(rows) :
       isSelected(start, rows[i]) = selected =>
         /\ Recorded(a, rows[i])
         /\ Recorded(b, rows[i])

\* C25: for every non-empty page SELECT_PAGE(rows) gives what TOGGLE gives
\* applied in turn to the unselected rows of rows, and DESELECT_PAGE(rows)
\* what TOGGLE gives applied in turn to the selected rows.
C25_PageCommandIsBatchToggle ==
  \A p \in Pages :
    LET rows == PageRows(p, state.totalRecords)
    IN  Len(rows) > 0 =>
          /\ SameSelection(
               selectionReducer(state, PageAction("SELECT_ALL_PAGE", rows)),
               toggleEach(state, rows, Len(rows), FALSE),
               state, rows, FALSE)
          /\ SameSelection(
               selectionReducer(state, PageAction("DESELECT_ALL_PAGE", rows)),
               toggleEach(state, rows, Len(rows), TRUE),
               state, rows, TRUE)

\* C25 witness: SELECT_PAGE acted on a full page holding a selected row and
\* an excluded row, and left what toggling the unselected rows leaves.
C25_Witness ==
  /\ last.type = "SELECT_ALL_PAGE"
  /\ Len(last.payload.rows) = rowsPerPage
  /\ \E i, j \in 1..Len(last.payload.rows) :
       /\ isSelected(prev, last.payload.rows[i])
       /\ SetHas(prev.overrides.excludedIds, last.payload.rows[j].id)
  /\ state.overrides # prev.overrides
  /\ state.overrides
       = toggleEach(prev, last.payload.rows, Len(last.payload.rows),
                    FALSE).overrides

\* C26: under RANGE the parameter lies between 0 and totalRecords.
C26_RangeWithinTotal ==
  state.mode = "RANGE" =>
    /\ 0 <= state.rangeCount
    /\ state.rangeCount <= state.totalRecords

\* C26 witness: a total below the range of a selection with overrides, after
\* which the range is the new total.
C26_Witness ==
  /\ last.type = "UPDATE_TOTAL_RECORDS"
  /\ prev.mode = "RANGE"
  /\ prev.overrides # createFreshOverrides
  /\ last.payload.total < prev.rangeCount
  /\ state.mode = "RANGE"
  /\ state.rangeCount = state.totalRecords

\* C28: under NONE the four override sets are empty and the parameter is 0,
\* so no pair is selected and selectedCount() is 0; a command that leaves an
\* included override behind after NONE leaves the mode EXPLICIT.
C28_NoneIsEmpty ==
  /\ state.mode = "NONE" =>
       /\ state.overrides = createFreshOverrides
       /\ state.rangeCount = 0
       /\ \A r \in AnyPairs : ~isSelected(state, r)
       /\ selectedCount = 0
  /\ (/\ prev.mode = "NONE"
      /\ Len(state.overrides.includedIds)
           + Len(state.overrides.includedIndices) > 0) =>
       state.mode = "EXPLICIT"

\* C28 witness: a toggle issued under NONE on a collection of two or more
\* records left one inclusion and the mode EXPLICIT.
C28_Witness ==
  /\ last.type = "TOGGLE_ROW"
  /\ prev.mode = "NONE"
  /\ prev.totalRecords >= 2
  /\ Len(state.overrides.includedIds) = 1
  /\ state.mode = "EXPLICIT"

\* The (id, index) pairs of the collection at its largest.
FixedPairs == {RowAt(i) : i \in 0..(MaxTotal - 1)}

\* C29: with every id always supplied with its one index, an id is in
\* includedIds iff its index is in includedIndices, and in excludedIds iff
\* its index is in excludedIndices.
C29_IdIndexCorrespondence ==
  /\ \A r \in FixedPairs :
       /\ SetHas(state.overrides.includedIds, r.id)
            <=> SetHas(state.overrides.includedIndices, r.absoluteIndex)
       /\ SetHas(state.overrides.excludedIds, r.id)
            <=> SetHas(state.overrides.excludedIndices, r.absoluteIndex)
  /\ Range(state.overrides.includedIndices)
       \cup Range(state.overrides.excludedIndices) \subseteq 0..(MaxTotal - 1)

\* C29 witness: DESELECT_PAGE added an exclusion to a selection that also
\* holds an inclusion.
C29_Witness ==
  /\ last.type = "DESELECT_ALL_PAGE"
  /\ Len(state.overrides.excludedIds) > Len(prev.overrides.excludedIds)
  /\ Len(state.overrides.includedIds) > 0

\* C30: every id of includedIds or excludedIds has an entry in
\* idToIndexCache, so no id counts as one with no known index.
C30_OverrideIdsAreCached ==
  /\ Range(state.overrides.includedIds) \cup Range(state.overrides.excludedIds)
       \subseteq DOMAIN state.idToIndexCache
  /\ UnknownIds(state, state.overrides.includedIds) = {}
  /\ UnknownIds(state, state.overrides.excludedIds) = {}

\* C30 witness: a new total arrived while an id was included and another
\* excluded.
C30_Witness ==
  /\ last.type = "UPDATE_TOTAL_RECORDS"
  /\ Len(state.overrides.includedIds) > 0
  /\ Len(state.overrides.excludedIds) > 0
  /\ last.payload.total # prev.totalRecords

\* Nothing of the table is waiting: no fetch in flight, no effect scheduled.
Quiescent == requests = <<>> /\ ~pending

\* The engine's total changes only by an UPDATE_TOTAL carrying the fetch
\* layer's total, and the two totals agree whenever no effect is scheduled.
TotalOnlyThroughUpdate ==
  /\ state.totalRecords # prev.totalRecords =>
       /\ last.type = "UPDATE_TOTAL_RECORDS"
       /\ last.payload.total = data.totalRecords
       /\ state.totalRecords = data.totalRecords
  /\ ~pending => state.totalRecords = data.totalRecords
  /\ Quiescent => state.totalRecords = data.totalRecords

\* C27: the fetch layer's total reaches the engine only through
\* UPDATE_TOTAL, and whenever it changes to t an UPDATE_TOTAL(t) is
\* eventually applied, so the totals agree in every quiescent state.
C27_TotalPropagates ==
  /\ []TotalOnlyThroughUpdate
  /\ \A t \in 0..MaxTotal :
       (pending /\ data.totalRecords = t)
         ~> (/\ last.type = "UPDATE_TOTAL_RECORDS"
             /\ last.payload.total = t
             /\ state.totalRecords = t)

\* C27 witness: the table is quiescent after an UPDATE_TOTAL carried a new,
\* smaller total to an engine whose selection the user had set meanwhile.
C27_Witness ==
  /\ Quiescent
  /\ last.type = "UPDATE_TOTAL_RECORDS"
  /\ prev.mode = "RANGE"
  /\ prev.totalRecords > last.payload.total
  /\ last.payload.total > 0
  /\ state.totalRecords = data.totalRecords

\* The pair names a record of the collection: the id is that of the record
\* at the index.
TruePair(row) == row.id = IdAt(row.absoluteIndex)

\* C31: every pair passed to the engine by a row toggle, a page command or
\* isRowSelected is a true pair, and the rows the fetch layer holds are the
\* rows of currentPage, also between a page change and the arrival of the
\* new page.
C31_PairsAreTrue ==
  /\ last.type \in {"isRowSelected", "TOGGLE_ROW"} => TruePair(last.payload)
  /\ last.type \in PageCommands =>
       \A i \in 1..Len(last.payload.rows) : TruePair(last.payload.rows[i])
  /\ \A i \in 1..Len(data.artworks) :
       data.artworks[i].id = IdAt(data.currentPage * rowsPerPage + (i - 1))

\* The most recently issued fetch has not settled.
LatestInFlight == \E i \in DOMAIN requests : requests[i].n = issued

\* loading is true while the latest fetch is in flight, and the completion
\* of a superseded fetch leaves loading as it was.
LoadingTracksLatest ==
  /\ LatestInFlight => data.loading
  /\ (FetchCompleted /\ last.request.n < issued) =>
       data.loading = prevData.loading

\* C32: loading is true whenever the latest fetch is in flight; it turns
\* true only when a fetch is issued; and when page changes and retries
\* stop, loading eventually becomes false and stays false.
C32_LoadingSettles ==
  /\ []LoadingTracksLatest
  /\ [][(~data.loading /\ data'.loading) => issued' > issued]_vars
  /\ ([]<><<issued' > issued>>_vars) \/ <>[](~data.loading)

\* C32 witness: a superseded fetch settled last, after the fetch that
\* superseded it, and loading is false with nothing in flight.
C32_Witness ==
  /\ FetchCompleted
  /\ last.request.n < issued
  /\ last.request.isCancelled
  /\ requests = <<>>
  /\ ~data.loading
  /\ ~prevData.loading

====
